---- MODULE Spec2Model ----
(***************************************************************************)
(* A model of the Brainfuck -> RISC-V translator: the parser               *)
(* (src/src/parser.rs), the instruction type (src/src/instruction.rs) and  *)
(* the code generator (src/src/compiler.rs), run in sequence as main does  *)
(* (src/src/main.rs).                                                      *)
(*                                                                         *)
(* Positions are 0-based as in the Rust code; a TLA+ sequence is 1-based,  *)
(* so position i of `program` is program[i + 1].                           *)
(***************************************************************************)
EXTENDS Integers, Sequences, FiniteSets, TLC

VARIABLES source, pos, program, loop_starts, panic, pc, index, output

vars == <<source, pos, program, loop_starts, panic, pc, index, output>>

-----------------------------------------------------------------------------
(* Bounds of the model *)

\* longest enumerated source string
MaxLen == 4
\* longest enumerated source string over the characters '[', ']', '+', 'x'
MaxNest == 7
\* longest run of one repeated command among the extra sources
MaxRun == 6
\* longest instruction sequence handed directly to compile_risc_v
MaxProg == 3
\* largest count of a counted instruction handed directly to compile_risc_v
MaxCount == 2
\* largest loop target of a loop marker handed directly to compile_risc_v
MaxTarget == 3

-----------------------------------------------------------------------------
(* Characters *)

\* the string literal of the filter closure, parser.rs line 11
FilterString == <<"<", ">", "+", "-", ",", ".", "[", "]">>

\* a character that is not a command (comment text)
OtherChars == {"x"}

Alphabet == {FilterString[i] : i \in 1..Len(FilterString)} \cup OtherChars

\* |c| "<>+-,.[]".contains(*c)
IsCommandNoFilter(c) == TRUE
IsCommand(c) == \E i \in 1..Len(FilterString) : FilterString[i] = c

-----------------------------------------------------------------------------
(* Instruction (instruction.rs) *)

CountedTags == {"AddPtr", "SubPtr", "AddByte", "SubByte", "Read", "Write"}

AddPtr(n)    == [tag |-> "AddPtr", count |-> n]
SubPtr(n)    == [tag |-> "SubPtr", count |-> n]
AddByte(n)   == [tag |-> "AddByte", count |-> n]
SubByte(n)   == [tag |-> "SubByte", count |-> n]
Read(n)      == [tag |-> "Read", count |-> n]
Write(n)     == [tag |-> "Write", count |-> n]
LoopStart(e) == [tag |-> "LoopStart", end |-> e]
LoopEnd(s)   == [tag |-> "LoopEnd", start |-> s]

\* Option::None
None == [tag |-> "None"]

\* Instruction::can_increment
can_increment_all(inst) == TRUE
can_increment(inst) ==
    CASE inst.tag \in CountedTags -> TRUE
      [] inst.tag \in {"LoopStart", "LoopEnd"} -> FALSE

\* Instruction::increment panics on a variant without count
increment_panics(inst) == inst.tag \notin CountedTags

\* Instruction::increment on a variant with count
increment_noop(inst) == inst
increment(inst) == [inst EXCEPT !.count = @ + 1]

\* Instruction::from_char
from_char(c) ==
    CASE c = ">" -> AddPtr(1)
      [] c = "<" -> SubPtr(1)
      [] c = "+" -> AddByte(1)
      [] c = "-" -> SubByte(1)
      [] c = "," -> Read(1)
      [] c = "." -> Write(1)
      [] c = "[" -> LoopStart(0)
      [] c = "]" -> LoopEnd(0)
      [] OTHER -> None

\* Instruction::set_target panics on a variant without target
set_target_panics(inst) == inst.tag \notin {"LoopStart", "LoopEnd"}

\* Instruction::set_target on a loop marker
set_target_keep(inst, target) == inst
set_target(inst, target) ==
    CASE inst.tag = "LoopStart" -> [inst EXCEPT !.end = target]
      [] inst.tag = "LoopEnd" -> [inst EXCEPT !.start = target]

\* PartialEq for Instruction: the discriminants alone
eq_structural(a, b) == a = b
eq(a, b) == a.tag = b.tag

-----------------------------------------------------------------------------
(* parse (parser.rs) *)

NoPanic          == "none"
UnmatchedEnd     == "Unmatched loop end"
UnmatchedStart   == "Unmatched loop start."
UnwrapNone       == "called Option::unwrap() on a None value"
IncrementNoCount == "increment_count() called on instruction without count"
SetTargetNoTarget == "set_target() called on instruction with no target"

Result(p, ls, pn) == [program |-> p, loop_starts |-> ls, panic |-> pn]

\* lines 16-21: fold the candidate into the previous instruction.
\* Yields the program, the candidate left (None when folded) and a panic.
Folded(p, n, pn) == [program |-> p, next_inst |-> n, panic |-> pn]

fold_step_any_variant(prog, next_inst) ==
    IF Len(prog) = 0 THEN Folded(prog, next_inst, NoPanic)
    ELSE IF next_inst = None THEN Folded(prog, next_inst, UnwrapNone)
    ELSE LET prev_inst == prog[Len(prog)]
         IN IF eq(prev_inst, next_inst)
            THEN Folded(IF prev_inst.tag \in CountedTags
                        THEN [prog EXCEPT ![Len(prog)] = increment(@)]
                        ELSE prog,
                        None, NoPanic)
            ELSE Folded(prog, next_inst, NoPanic)

fold_step(prog, next_inst) ==
    IF Len(prog) = 0 THEN Folded(prog, next_inst, NoPanic)
    ELSE IF next_inst = None THEN Folded(prog, next_inst, UnwrapNone)
    ELSE LET prev_inst == prog[Len(prog)]
         IN IF eq(prev_inst, next_inst) /\ can_increment(prev_inst)
            THEN IF increment_panics(prev_inst)
                 THEN Folded(prog, next_inst, IncrementNoCount)
                 ELSE Folded([prog EXCEPT ![Len(prog)] = increment(@)],
                             None, NoPanic)
            ELSE Folded(prog, next_inst, NoPanic)

\* line 30: the position the loop end is about to take
loop_end_off_by_one(prog) == Len(prog) + 1
loop_end_index(prog) == Len(prog)

\* lines 24-37: resolve the loop targets and append the candidate
resolve_step(prog, starts, next_inst) ==
    IF next_inst.tag = "LoopStart"
    THEN Result(Append(prog, next_inst), Append(starts, Len(prog)), NoPanic)
    ELSE IF next_inst.tag = "LoopEnd"
    THEN IF Len(starts) = 0
         THEN Result(prog, starts, UnmatchedEnd)
         ELSE LET loop_start == starts[Len(starts)]
                  popped     == SubSeq(starts, 1, Len(starts) - 1)
                  closing    == [next_inst EXCEPT !.start = loop_start]
                  loop_end   == loop_end_index(prog)
              IN IF loop_start >= Len(prog)
                 THEN Result(prog, popped, UnwrapNone)
                 ELSE IF set_target_panics(prog[loop_start + 1])
                 THEN Result(prog, popped, SetTargetNoTarget)
                 ELSE Result(Append([prog EXCEPT ![loop_start + 1] =
                                         set_target(@, loop_end)],
                                    closing),
                             popped, NoPanic)
    ELSE IF next_inst = None
    THEN Result(prog, starts, NoPanic)
    ELSE Result(Append(prog, next_inst), starts, NoPanic)

\* lines 13-37: the body of the for loop, for one command
loop_body(prog, starts, command) ==
    LET f == fold_step(prog, from_char(command))
    IN IF f.panic # NoPanic
       THEN Result(f.program, starts, f.panic)
       ELSE resolve_step(f.program, starts, f.next_inst)

\* lines 41-43: the check after the loop
finish_unchecked(starts) == NoPanic
finish(starts) == IF Len(starts) # 0 THEN UnmatchedStart ELSE NoPanic

\* parse as a function of the source: the loop from character k on
RECURSIVE parse_loop(_, _, _)
parse_loop(st, src, k) ==
    IF st.panic # NoPanic THEN st
    ELSE IF k > Len(src) THEN Result(st.program, st.loop_starts, finish(st.loop_starts))
    ELSE IF ~IsCommand(src[k]) THEN parse_loop(st, src, k + 1)
    ELSE parse_loop(loop_body(st.program, st.loop_starts, src[k]), src, k + 1)

\* the outcome of parse: the returned sequence, or the panic
Outcome(st) == IF st.panic # NoPanic THEN [panic |-> st.panic]
               ELSE [program |-> st.program]

parse(src) == Outcome(parse_loop(Result(<<>>, <<>>, NoPanic), src, 1))

-----------------------------------------------------------------------------
(* compile_risc_v (compiler.rs) *)

Digit(d) == <<"0", "1", "2", "3", "4", "5", "6", "7", "8", "9">>[d + 1]

\* format!("{}", n) of an unsigned value: its decimal digits
RECURSIVE Fmt(_)
Fmt(n) == IF n < 10 THEN <<Digit(n)>> ELSE Fmt(n \div 10) \o <<Digit(n % 10)>>

\* format!("{}", -(*count as i64)); a count stays far below 2^63 here, so
\* the cast keeps its value and the negation does not overflow
FmtNeg(n) == IF n = 0 THEN Fmt(0) ELSE <<"-">> \o Fmt(n)

\* `count` lines "ecall\n"
Ecalls(count) == [k \in 1..count |-> <<"ecall\n">>]

\* lines 8-14
Prologue ==
    << <<".data\n">>, <<"memory: .space 30000\n\n">>,
       <<".text\n">>, <<"main:\n">>, <<"la s0, memory\n">> >>

\* lines 72-74
Epilogue ==
    << <<"li\ta0, 0\n">>, <<"li \ta7, 93\n">>, <<"ecall\n\n">> >>

\* the label a jump names, and the line defining a label
StartRef(n) == <<"la t0, start_">> \o Fmt(n) \o <<"\n">>
EndRef(n)   == <<"la t0, end_">> \o Fmt(n) \o <<"\n">>
StartBranch(n) == <<"bnez s1, start_">> \o Fmt(n) \o <<"\n">>
EndBranch(n)   == <<"beqz s1, end_">> \o Fmt(n) \o <<"\n">>
StartDef(n) == <<"start_">> \o Fmt(n) \o <<":\n\n">>
EndDef(n)   == <<"end_">> \o Fmt(n) \o <<":\n\n">>

\* lines 54-67: the match arms of the two loop markers at position idx
emit_loop_no_label(idx, inst) ==
    CASE inst.tag = "LoopStart" ->
           << <<"lbu s1, (s0)\n">>, StartBranch(idx), EndRef(inst.end),
              <<"jr t0\n">> >>
      [] inst.tag = "LoopEnd" ->
           << <<"lbu s1, (s0)\n">>, EndBranch(idx), StartRef(inst.start),
              <<"jr t0\n">> >>

emit_loop_own_index(idx, inst) ==
    CASE inst.tag = "LoopStart" ->
           << <<"lbu s1, (s0)\n">>, StartBranch(idx), EndRef(idx),
              <<"jr t0\n">>, StartDef(idx) >>
      [] inst.tag = "LoopEnd" ->
           << <<"lbu s1, (s0)\n">>, EndBranch(idx), StartRef(idx),
              <<"jr t0\n">>, EndDef(idx) >>

emit_loop(idx, inst) ==
    CASE inst.tag = "LoopStart" ->
           << <<"lbu s1, (s0)\n">>, StartBranch(idx), EndRef(inst.end),
              <<"jr t0\n">>, StartDef(idx) >>
      [] inst.tag = "LoopEnd" ->
           << <<"lbu s1, (s0)\n">>, EndBranch(idx), StartRef(inst.start),
              <<"jr t0\n">>, EndDef(idx) >>

\* lines 18-68: the match on one instruction at position idx
emit(idx, inst) ==
    CASE inst.tag = "AddPtr" ->
           << <<"addi s0, s0, ">> \o Fmt(inst.count) \o <<"\n\n">> >>
      [] inst.tag = "SubPtr" ->
           << <<"addi s0, s0, ">> \o FmtNeg(inst.count) \o <<"\n\n">> >>
      [] inst.tag = "AddByte" ->
           << <<"lbu s1, (s0)\n">>,
              <<"addi s1, s1, ">> \o Fmt(inst.count) \o <<"\n">>,
              <<"sb s1, (s0)\n\n">> >>
      [] inst.tag = "SubByte" ->
           << <<"lbu s1, (s0)\n">>,
              <<"addi s1, s1, ">> \o FmtNeg(inst.count) \o <<"\n">>,
              <<"sb s1, (s0)\n\n">> >>
      [] inst.tag = "Read" ->
           << <<"li a7, 12\n">> >> \o Ecalls(inst.count)
              \o << <<"sb a0, (s0)\n\n">> >>
      [] inst.tag = "Write" ->
           << <<"lbu a0, (s0)\n">>, <<"li a7, 11\n">> >> \o Ecalls(inst.count)
              \o << <<"\n">> >>
      [] inst.tag \in {"LoopStart", "LoopEnd"} -> emit_loop(idx, inst)

-----------------------------------------------------------------------------
(* The inputs *)

Seqs(S, n) == UNION {[1..k -> S] : k \in 0..n}

CountedChars == {">", "<", "+", "-", ",", "."}

\* k repetitions of one counted command
Runs == {[i \in 1..k |-> c] : c \in CountedChars, k \in 1..MaxRun}

Examples ==
    { <<"+", "+", ">", "+", "<", "[", "-", "]">>,
      <<"+", "+", "+", "[", "+", "]">>,
      <<"+", "x", "x", "+", "x", "+", "x", "+", "x", "+">>,
      <<"[", ">", "[", "-", "]", "<", "[", "+", ",", "]", "]">>,
      <<"[", "[", "[", "]", "]", "[", "]", "]", "[", "]">>,
      <<",", "[", ".", ".", "x", ".", "[", "-", "]", ",", ",", "]", "]">>,
      <<"[", "x", "[", "x", "]", "+", "x", "+", "[", "-", "-">> }

\* loops in loops, with one counted command and comment text
NestChars == {"[", "]", "+", "x"}

Sources ==
    Seqs(Alphabet, MaxLen) \cup Seqs(NestChars, MaxNest) \cup Runs \cup Examples

\* every instruction a caller of compile_risc_v can build, within the bounds
Instructions ==
    {[tag |-> t, count |-> n] : t \in CountedTags, n \in 1..MaxCount}
    \cup {LoopStart(e) : e \in 0..MaxTarget}
    \cup {LoopEnd(s) : s \in 0..MaxTarget}

Programs == Seqs(Instructions, MaxProg)

-----------------------------------------------------------------------------
(* The pipeline of main: parse, then compile_risc_v *)

Init ==
    /\ source \in Sources
    /\ pos = 0
    /\ program = <<>>
    /\ loop_starts = <<>>
    /\ panic = NoPanic
    /\ pc = "parse"
    /\ index = 0
    /\ output = <<>>

\* the filter drops the next character
ParseSkip ==
    /\ pc = "parse"
    /\ pos < Len(source)
    /\ ~IsCommand(source[pos + 1])
    /\ pos' = pos + 1
    /\ UNCHANGED <<source, program, loop_starts, panic, pc, index, output>>

\* one iteration of the for loop
ParseCommand ==
    /\ pc = "parse"
    /\ pos < Len(source)
    /\ IsCommand(source[pos + 1])
    /\ LET r == loop_body(program, loop_starts, source[pos + 1])
       IN /\ program' = r.program
          /\ loop_starts' = r.loop_starts
          /\ panic' = r.panic
          /\ pc' = IF r.panic # NoPanic THEN "panic" ELSE "parse"
    /\ pos' = pos + 1
    /\ UNCHANGED <<source, index, output>>

\* the loop is over: the unmatched loop start check, then the return
ParseFinish ==
    /\ pc = "parse"
    /\ pos = Len(source)
    /\ panic' = finish(loop_starts)
    /\ pc' = IF finish(loop_starts) # NoPanic THEN "panic" ELSE "ready"
    /\ UNCHANGED <<source, pos, program, loop_starts, index, output>>

\* compile_risc_v up to its for loop
CompileBegin ==
    /\ pc = "ready"
    /\ output' = Prologue
    /\ index' = 0
    /\ pc' = "compile"
    /\ UNCHANGED <<source, pos, program, loop_starts, panic>>

\* one iteration of the for loop of compile_risc_v
CompileInst ==
    /\ pc = "compile"
    /\ index < Len(program)
    /\ output' = output \o emit(index, program[index + 1])
    /\ index' = index + 1
    /\ UNCHANGED <<source, pos, program, loop_starts, panic, pc>>

\* the exit code, then the return of the output
CompileEnd ==
    /\ pc = "compile"
    /\ index = Len(program)
    /\ output' = output \o Epilogue
    /\ pc' = "compiled"
    /\ UNCHANGED <<source, pos, program, loop_starts, panic, index>>

Next ==
    \/ ParseSkip
    \/ ParseCommand
    \/ ParseFinish
    \/ CompileBegin
    \/ CompileInst
    \/ CompileEnd

Spec == Init /\ [][Next]_vars

(* compile_risc_v called on any instruction sequence (it is a pub fn) *)

InitCompile ==
    /\ source = <<>>
    /\ pos = 0
    /\ program \in Programs
    /\ loop_starts = <<>>
    /\ panic = NoPanic
    /\ pc = "ready"
    /\ index = 0
    /\ output = <<>>

NextCompile ==
    \/ CompileBegin
    \/ CompileInst
    \/ CompileEnd

SpecCompile == InitCompile /\ [][NextCompile]_vars

-----------------------------------------------------------------------------
(* What the properties are stated with *)

\* the instruction at position i (0-based)
At(i) == program[i + 1]

Positions == 0..(Len(program) - 1)

\* parse has returned its sequence
Returned == pc \in {"ready", "compile", "compiled"}

\* the eight commands of the language
EightCommands == {">", "<", "+", "-", ",", ".", "[", "]"}

\* a source without its non-command characters
Strip(s) == SelectSeq(s, LAMBDA c : c \in EightCommands)

\* the variant of each counted command
VariantOf(c) ==
    CASE c = ">" -> "AddPtr"
      [] c = "<" -> "SubPtr"
      [] c = "+" -> "AddByte"
      [] c = "-" -> "SubByte"
      [] c = "," -> "Read"
      [] c = "." -> "Write"

\* how many times character c occurs among the first k characters of s
Occurs(s, k, c) == Cardinality({i \in 1..k : s[i] = c})

\* '[' minus ']' among the first k characters of s
Balance(s, k) == Occurs(s, k, "[") - Occurs(s, k, "]")

\* some prefix of s holds more ']' than '['
ClosesTooMany(s) == \E k \in 1..Len(s) : Balance(s, k) < 0

\* the length of the shortest such prefix
FirstExcessClose(s) ==
    CHOOSE k \in 1..Len(s) :
        /\ Balance(s, k) < 0
        /\ \A m \in 1..(k - 1) : Balance(s, m) >= 0

\* how many instructions of the sequence p carry tag t
TagCount(p, t) == Cardinality({i \in 1..Len(p) : p[i].tag = t})

\* LoopStart minus LoopEnd among positions i..j of the sequence p
Depth(p, i, j) ==
    Cardinality({m \in i..j : p[m + 1].tag = "LoopStart"})
    - Cardinality({m \in i..j : p[m + 1].tag = "LoopEnd"})

\* position j closes the loop opened at position i, by nesting alone
Closes(p, i, j) ==
    /\ i < j
    /\ p[i + 1].tag = "LoopStart"
    /\ p[j + 1].tag = "LoopEnd"
    /\ Depth(p, i, j) = 0
    /\ \A m \in i..(j - 1) : Depth(p, i, m) > 0

\* the counts of the instructions of p that carry tag t, added up
RECURSIVE CountSum(_, _)
CountSum(p, t) ==
    IF p = <<>> THEN 0
    ELSE (IF Head(p).tag = t THEN Head(p).count ELSE 0) + CountSum(Tail(p), t)

\* the loop markers of the sequence p name each other
Paired(p) ==
    \A i \in 0..(Len(p) - 1) :
        /\ p[i + 1].tag = "LoopStart" =>
              LET j == p[i + 1].end
              IN /\ j \in 0..(Len(p) - 1)
                 /\ i < j
                 /\ p[j + 1].tag = "LoopEnd"
                 /\ p[j + 1].start = i
        /\ p[i + 1].tag = "LoopEnd" =>
              LET k == p[i + 1].start
              IN /\ k \in 0..(Len(p) - 1)
                 /\ k < i
                 /\ p[k + 1].tag = "LoopStart"
                 /\ p[k + 1].end = i

-----------------------------------------------------------------------------
(* The properties *)

\* C1: in every sequence parse returns, each LoopStart at position i with
\* end = j has a LoopEnd with start = i at position j, each LoopEnd at j
\* with start = i has a LoopStart with end = j at position i, both
\* positions are valid and i < j.
C1_BijectivePairing == Returned => Paired(program)

\* C1 happens: a returned sequence with a loop nested in a loop
C1_Witness ==
    /\ pc = "ready"
    /\ \E i, j \in Positions :
          /\ i < j
          /\ At(i).tag = "LoopStart"
          /\ At(j).tag = "LoopStart"
          /\ At(j).end < At(i).end

\* C2: once parse has ended, it failed with "Unmatched loop end" exactly
\* when some prefix of the source holds more ']' than '[', and then at the
\* first such ']'; otherwise it failed with "Unmatched loop start." exactly
\* when the whole source holds more '[' than ']'; otherwise it returned.
C2_BracketErrors ==
    pc # "parse" =>
        /\ (panic = UnmatchedEnd) <=> ClosesTooMany(source)
        /\ ClosesTooMany(source) => pos = FirstExcessClose(source)
        /\ (panic = UnmatchedStart) <=>
              (~ClosesTooMany(source) /\ Balance(source, Len(source)) > 0)
        /\ (Returned /\ panic = NoPanic) <=>
              (~ClosesTooMany(source) /\ Balance(source, Len(source)) = 0)

\* C2 happens: '[]]' has ended with the unmatched loop end failure
C2_Witness ==
    /\ source = <<"[", "]", "]">>
    /\ pc = "panic"
    /\ panic = UnmatchedEnd

\* C3: a source whose commands are k >= 1 repetitions of one counted
\* command parses to exactly one instruction, of the variant of that
\* command, with count = k.
C3_FoldingRuns ==
    \A c \in {">", "<", "+", "-", ",", "."} :
        LET k == Len(Strip(source))
        IN (k >= 1 /\ Strip(source) = [i \in 1..k |-> c] /\ pc # "parse")
              => /\ Returned
                 /\ program = <<[tag |-> VariantOf(c), count |-> k]>>

\* C3 happens: a run of MaxRun '.' has been parsed
C3_Witness ==
    /\ pc = "ready"
    /\ Len(source) >= 4
    /\ \A i \in 1..Len(source) : source[i] = "."

\* C4: as long as parse has not failed, the sequence holds one LoopStart
\* for each '[' scanned and one LoopEnd for each ']' scanned, and the
\* counts of each counted variant add up to the number of its commands
\* scanned, so a bracket changes no count.
C4_LoopsNeverFolded ==
    pc # "panic" =>
        /\ TagCount(program, "LoopStart") = Occurs(source, pos, "[")
        /\ TagCount(program, "LoopEnd") = Occurs(source, pos, "]")
        /\ \A c \in {">", "<", "+", "-", ",", "."} :
              CountSum(program, VariantOf(c)) = Occurs(source, pos, c)

\* C4 happens: '[[' followed by ']]' has been parsed
C4_Witness ==
    /\ pc = "ready"
    /\ source = <<"[", "[", "]", "]">>
    /\ TagCount(program, "LoopStart") = 2
    /\ TagCount(program, "LoopEnd") = 2

\* C5: once parse has ended, its outcome (the sequence, or the failure) is
\* the outcome of parse on the source without its non-command characters.
C5_NonCommandsIgnored ==
    pc # "parse" =>
        /\ Outcome([program |-> program, panic |-> panic]) = parse(Strip(source))
        /\ parse(source) = parse(Strip(source))

\* C5 happens: '+' five times with comment text in between folds into one
\* instruction
C5_Witness ==
    /\ pc = "ready"
    /\ source = <<"+", "x", "x", "+", "x", "+", "x", "+", "x", "+">>
    /\ program = <<AddByte(5)>>

\* the end-to-end example of the specification, '++>+<[-]'
ExampleSource == <<"+", "+", ">", "+", "<", "[", "-", "]">>

\* C6, as stated: '++>+<[-]' parses to a sequence whose LoopStart at
\* position 4 carries end = 5 and whose LoopEnd carries start = 4.
C6_AsStated ==
    (source = ExampleSource /\ pc # "parse") =>
        /\ Returned
        /\ program = <<AddByte(2), AddPtr(1), AddByte(1), SubPtr(1),
                       LoopStart(5), SubByte(1), LoopEnd(4)>>

\* C6, amended: '++>+<[-]' parses to a sequence whose LoopStart at
\* position 4 carries end = 6, the position of the LoopEnd, and whose
\* LoopEnd at position 6 carries start = 4.
C6_Example ==
    (source = ExampleSource /\ pc # "parse") =>
        /\ Returned
        /\ program = <<AddByte(2), AddPtr(1), AddByte(1), SubPtr(1),
                       LoopStart(6), SubByte(1), LoopEnd(4)>>

\* C6 happens: parse has returned on '++>+<[-]'
C6_Witness ==
    /\ source = ExampleSource
    /\ pc = "ready"
    /\ Len(program) = 7

\* block occurs in out as consecutive lines
ContainsBlock(out, block) ==
    \E k \in 0..(Len(out) - Len(block)) :
        SubSeq(out, k + 1, k + Len(block)) = block

\* how many lines of out are the line l
LineCount(out, l) == Cardinality({k \in 1..Len(out) : out[k] = l})

\* the lines that define a label, and the lines that name one in a jump
IsLabelDef(l) == l[1] \in {"start_", "end_"}
IsStartUse(l) == l[1] \in {"la t0, start_", "bnez s1, start_"}
IsEndUse(l)   == l[1] \in {"la t0, end_", "beqz s1, end_"}

\* the digits of the label a line names
LabelDigits(l) == SubSeq(l, 2, Len(l) - 1)

\* the code of a LoopStart at position i jumping to end_e, and of a
\* LoopEnd at position j jumping to start_s
LoopStartBlock(i, e) ==
    << <<"lbu s1, (s0)\n">>, StartBranch(i), EndRef(e), <<"jr t0\n">>,
       StartDef(i) >>
LoopEndBlock(j, s) ==
    << <<"lbu s1, (s0)\n">>, EndBranch(j), StartRef(s), <<"jr t0\n">>,
       EndDef(j) >>

\* C7, as stated: compile_risc_v returns no output for a sequence whose
\* loop markers do not name each other.
C7_AsStated == ~Paired(program) => pc # "compiled"

\* C7, amended: compile_risc_v checks nothing and never fails; for any
\* sequence, matched or not, it returns the prologue, the code of every
\* instruction and the epilogue, where a LoopStart at i with end = e jumps
\* to end_e and a LoopEnd at j with start = s jumps to start_s as stored,
\* whether or not that label is defined.
C7_NoValidation ==
    /\ panic = NoPanic
    /\ pc = "compiled" =>
          /\ Len(output) >= Len(Prologue) + Len(Epilogue)
          /\ SubSeq(output, 1, Len(Prologue)) = Prologue
          /\ SubSeq(output, Len(output) - Len(Epilogue) + 1, Len(output))
                = Epilogue
          /\ \A i \in Positions :
                /\ At(i).tag = "LoopStart" =>
                      ContainsBlock(output, LoopStartBlock(i, At(i).end))
                /\ At(i).tag = "LoopEnd" =>
                      ContainsBlock(output, LoopEndBlock(i, At(i).start))

\* C7 happens: output was returned for a LoopStart whose end is no
\* position of the sequence, and names a label that is not defined
C7_Witness ==
    /\ pc = "compiled"
    /\ program = <<LoopStart(2)>>
    /\ LineCount(output, EndRef(2)) = 1
    /\ LineCount(output, EndDef(2)) = 0

\* C8: in the assembly of a sequence parse returned, start_i is defined
\* once if position i holds a LoopStart and never otherwise, end_j once if
\* position j holds a LoopEnd and never otherwise, no other label is
\* defined, every label a jump names is defined once, and for every loop
\* opened at i and closed at j the LoopStart code names start_i and end_j
\* and the LoopEnd code names end_j and start_i.
C8_LabelsDefinedAndMatched ==
    pc = "compiled" =>
        /\ \A i \in Positions :
              /\ LineCount(output, StartDef(i)) =
                    IF At(i).tag = "LoopStart" THEN 1 ELSE 0
              /\ LineCount(output, EndDef(i)) =
                    IF At(i).tag = "LoopEnd" THEN 1 ELSE 0
        /\ Cardinality({k \in 1..Len(output) : IsLabelDef(output[k])})
              = TagCount(program, "LoopStart") + TagCount(program, "LoopEnd")
        /\ \A k \in 1..Len(output) :
              /\ IsStartUse(output[k]) =>
                    LineCount(output, <<"start_">> \o LabelDigits(output[k])
                                          \o <<":\n\n">>) = 1
              /\ IsEndUse(output[k]) =>
                    LineCount(output, <<"end_">> \o LabelDigits(output[k])
                                          \o <<":\n\n">>) = 1
        /\ \A i, j \in Positions :
              Closes(program, i, j) =>
                  /\ ContainsBlock(output, LoopStartBlock(i, j))
                  /\ ContainsBlock(output, LoopEndBlock(j, i))

\* C8 happens: the assembly of two loops nested in a third is complete
C8_Witness ==
    /\ pc = "compiled"
    /\ source = <<"[", ">", "[", "-", "]", "<", "[", "+", ",", "]", "]">>
    /\ ContainsBlock(output, LoopStartBlock(0, 10))

\* the command of each variant
CharOf(t) ==
    CASE t = "AddPtr" -> ">"
      [] t = "SubPtr" -> "<"
      [] t = "AddByte" -> "+"
      [] t = "SubByte" -> "-"
      [] t = "Read" -> ","
      [] t = "Write" -> "."
      [] t = "LoopStart" -> "["
      [] t = "LoopEnd" -> "]"

\* the commands a sequence stands for
RECURSIVE Expand(_)
Expand(p) ==
    IF p = <<>> THEN <<>>
    ELSE (IF Head(p).tag \in CountedTags
          THEN [i \in 1..Head(p).count |-> CharOf(Head(p).tag)]
          ELSE <<CharOf(Head(p).tag)>>) \o Expand(Tail(p))

\* C9: as long as parse has not failed, the sequence expands to exactly the
\* commands scanned so far (so, when parse returns, to the source without
\* its non-command characters), every count is at least 1, and no two
\* adjacent instructions are of the same counted variant.
C9_LosslessMaximalFolding ==
    pc # "panic" =>
        /\ Expand(program) = Strip(SubSeq(source, 1, pos))
        /\ \A i \in 1..Len(program) :
              program[i].tag \in CountedTags => program[i].count >= 1
        /\ \A i \in 1..(Len(program) - 1) :
              ~(/\ program[i].tag \in CountedTags
                /\ program[i].tag = program[i + 1].tag)

\* C9 happens: '+++[' followed by '+' keeps two IncrementByte instructions
C9_Witness ==
    /\ pc = "ready"
    /\ source = <<"+", "+", "+", "[", "+", "]">>
    /\ program = <<AddByte(3), LoopStart(3), AddByte(1), LoopEnd(1)>>

\* C10: parse fails in no way but the two unmatched-bracket failures, and
\* the pending stack holds, in strictly increasing order, exactly the
\* positions of the LoopStart instructions no LoopEnd has closed, each a
\* valid position of a LoopStart whose end is still 0.
C10_OnlyBracketFailures ==
    /\ panic \in {NoPanic, UnmatchedEnd, UnmatchedStart}
    /\ (pc = "panic") <=> (panic # NoPanic)
    /\ \A k \in 1..(Len(loop_starts) - 1) : loop_starts[k] < loop_starts[k + 1]
    /\ \A k \in 1..Len(loop_starts) :
          /\ loop_starts[k] \in Positions
          /\ At(loop_starts[k]).tag = "LoopStart"
          /\ At(loop_starts[k]).end = 0
    /\ {loop_starts[k] : k \in 1..Len(loop_starts)}
          = {i \in Positions :
                /\ At(i).tag = "LoopStart"
                /\ ~\E j \in Positions : Closes(program, i, j)}

\* C10 happens: parse is scanning with two loops pending, one loop closed
\* and the last instruction folded
C10_Witness ==
    /\ pc = "parse"
    /\ Len(loop_starts) = 2
    /\ TagCount(program, "LoopEnd") >= 1
    /\ Len(program) > 0
    /\ program[Len(program)].tag \in CountedTags
    /\ program[Len(program)].count = 2

====
